---- MODULE Spec2Model ----
(***************************************************************************)
(* Facade Energy Generation Calculator (src/app.py).                       *)
(*                                                                         *)
(* One run of the "Calculate Energy Generation" handler, as a state        *)
(* machine.  The handler is synchronous; it is cut into steps at the       *)
(* points where the outside world answers: the NSRDB request and the       *)
(* calls into pvlib.  Everything the script shows with st.error,           *)
(* st.warning and st.success is appended to messages.                      *)
(*                                                                         *)
(* Time is counted in whole hours from midnight of day 0 (UTC).  The       *)
(* Year and Month columns of the provider's CSV are held fixed, so a       *)
(* timestamp is composed from the Day and Hour columns alone.              *)
(*                                                                         *)
(* Numbers that pandas holds as floats are exact rationals <<n, d>> in     *)
(* lowest terms with d > 0.                                                *)
(***************************************************************************)
EXTENDS Integers, Sequences, FiniteSets, TLC

VARIABLES
    pc,                  \* position of the handler
    study_start_date,    \* st.date_input, as a day number
    study_end_date,
    api_key, full_name, email, affiliation,   \* st.text_input
    requests_sent,       \* number of requests.get calls issued
    messages,            \* st.error / st.warning / st.success calls, in order
    times,               \* the hourly grid, a sequence of hours
    nsrdb_data,          \* None, or the table as a sequence of rows
    sorted_data,         \* the table as sort_index returned it (line 90)
    reindexed,           \* the table as reindex(times, 'nearest') returned it
    selected_pv_module,  \* the catalogue entries of the two select boxes
    selected_inverter,
    ac_power,            \* pvlib.inverter.sandia result, one value per hour
    facade_area,         \* st.number_input
    system_losses,
    energy_generated_kWh,
    series,              \* argument of a direct call of interpolate_zero_values
    repaired             \* its result

vars == <<pc, study_start_date, study_end_date, api_key, full_name, email,
          affiliation, requests_sent, messages, times, nsrdb_data, sorted_data,
          reindexed,
          selected_pv_module, selected_inverter, ac_power, facade_area,
          system_losses, energy_generated_kWh, series, repaired>>

None == "None"

\* ------------------------------------------------------------------------
\* Bounds of the model
\* ------------------------------------------------------------------------
MaxDay  == 1     \* study dates range over days 0..MaxDay
MaxRows == 3     \* rows in a provider response
MaxLen  == 4     \* length of a series handed to interpolate_zero_values

HoursPerDay == 24

\* ------------------------------------------------------------------------
\* Arithmetic helpers: exact rationals
\* ------------------------------------------------------------------------
Abs(x) == IF x < 0 THEN -x ELSE x

RECURSIVE Gcd(_, _)
Gcd(a, b) == IF b = 0 THEN a ELSE Gcd(b, a % b)

Rat(n, d) ==
    LET g == Gcd(Abs(n), d)
    IN  IF n = 0 THEN <<0, 1>> ELSE <<n \div g, d \div g>>

RatOfInt(n) == <<n, 1>>
RatIsZero(p) == p[1] = 0

\* A missing value (pd.NA / NaN) is the pair with denominator 0.
NA == <<0, 0>>
IsNA(p) == p[2] = 0

\* ------------------------------------------------------------------------
\* interpolate_zero_values (app.py 28-29)
\*   series.replace(0, pd.NA).interpolate(method='linear').fillna(0)
\* ------------------------------------------------------------------------

\* series.replace(0, pd.NA): every exact zero becomes missing.
replace_zero(s) ==
    [i \in 1..Len(s) |-> IF RatIsZero(s[i]) THEN NA ELSE s[i]]

\* Series.interpolate(method='linear') with its defaults: the values are
\* numeric (NaN where a zero was replaced) and are taken as equally
\* spaced; a missing value between two valid ones lies on
\* the line through them; limit_direction defaults to 'forward', so missing
\* values after the last valid one repeat it, and missing values before the
\* first valid one stay missing.
PrevValid(s, i) == { j \in 1..(i - 1) : ~IsNA(s[j]) }
NextValid(s, i) == { j \in (i + 1)..Len(s) : ~IsNA(s[j]) }
MaxOf(S) == CHOOSE x \in S : \A y \in S : y <= x
MinOf(S) == CHOOSE x \in S : \A y \in S : x <= y

OnLine(a, b, k, n) ==
    \* the point k steps out of n on the way from a to b
    Rat(a[1] * b[2] * (n - k) + b[1] * a[2] * k, a[2] * b[2] * n)

\* The same with limit_area='inside': only gaps enclosed by valid values
\* are filled.
interpolate_linear_inside(s) ==
    [i \in 1..Len(s) |->
        IF ~IsNA(s[i]) THEN s[i]
        ELSE IF PrevValid(s, i) = {} \/ NextValid(s, i) = {} THEN NA
        ELSE LET p == MaxOf(PrevValid(s, i))
                 n == MinOf(NextValid(s, i))
             IN  OnLine(s[p], s[n], i - p, n - p)]

interpolate_linear(s) ==
    [i \in 1..Len(s) |->
        IF ~IsNA(s[i]) THEN s[i]
        ELSE IF PrevValid(s, i) = {} THEN NA
        ELSE LET p == MaxOf(PrevValid(s, i))
             IN  IF NextValid(s, i) = {} THEN s[p]
                 ELSE LET n == MinOf(NextValid(s, i))
                      IN  OnLine(s[p], s[n], i - p, n - p)]

fillna_zero(s) == [i \in 1..Len(s) |-> IF IsNA(s[i]) THEN <<0, 1>> ELSE s[i]]

interpolate_zero_values(s) == fillna_zero(interpolate_linear(replace_zero(s)))

\* ------------------------------------------------------------------------
\* The hourly grid (app.py 70)
\* ------------------------------------------------------------------------
date_range(start, end) ==
    [k \in 1..((end - start) * HoursPerDay + 1) |-> start * HoursPerDay + k - 1]

\* ------------------------------------------------------------------------
\* Time index of the response (app.py 82-84)
\* ------------------------------------------------------------------------

\* pd.to_datetime on the date-part columns raises unless every row is a
\* valid date and hour.
CanCompose(rows) == \A i \in 1..Len(rows) : rows[i].Hour \in 0..(HoursPerDay - 1)

to_datetime(row) == row.Day * HoursPerDay + row.Hour

set_time_index(rows) ==
    [i \in 1..Len(rows) |->
        [time |-> to_datetime(rows[i]),
         DNI |-> rows[i].DNI, GHI |-> rows[i].GHI, DHI |-> rows[i].DHI,
         Temperature |-> rows[i].Temperature,
         WindSpeed |-> rows[i].WindSpeed]]

\* ------------------------------------------------------------------------
\* sort_index (app.py 90)
\* ------------------------------------------------------------------------
RECURSIVE InsertByTime(_, _)
InsertByTime(sorted, row) ==
    IF sorted = <<>> THEN <<row>>
    ELSE IF row.time < Head(sorted).time THEN <<row>> \o sorted
    ELSE <<Head(sorted)>> \o InsertByTime(Tail(sorted), row)

RECURSIVE sort_index(_)
sort_index(rows) ==
    IF rows = <<>> THEN <<>>
    ELSE InsertByTime(sort_index(SubSeq(rows, 1, Len(rows) - 1)), rows[Len(rows)])

\* ------------------------------------------------------------------------
\* reindex(times, method='nearest') (app.py 94)
\* ------------------------------------------------------------------------

\* Index.reindex refuses a method on an index with repeated labels.
IndexIsUnique(rows) ==
    \A i, j \in 1..Len(rows) : rows[i].time = rows[j].time => i = j

\* Positions are counted from 0 as pandas does; -1 means "no such row".
pad_indexer(rows, t) ==
    LET S == { i \in 0..(Len(rows) - 1) : rows[i + 1].time <= t }
    IN  IF S = {} THEN -1 ELSE MaxOf(S)

backfill_indexer(rows, t) ==
    LET S == { i \in 0..(Len(rows) - 1) : rows[i + 1].time >= t }
    IN  IF S = {} THEN -1 ELSE MinOf(S)

\* Taking position -1 of an array yields its last element.
Take(rows, i) == IF i = -1 THEN rows[Len(rows)] ELSE rows[i + 1]

\* On an increasing index the nearer neighbour wins, the left one only if
\* it is strictly nearer or there is no right one.
nearest_indexer_left(rows, t) ==
    LET left  == pad_indexer(rows, t)
        right == backfill_indexer(rows, t)
        left_distance  == Abs(t - Take(rows, left).time)
        right_distance == Abs(t - Take(rows, right).time)
    IN  IF (left # -1 /\ left_distance <= right_distance) \/ right = -1
        THEN left ELSE right

nearest_indexer(rows, t) ==
    LET left  == pad_indexer(rows, t)
        right == backfill_indexer(rows, t)
        left_distance  == Abs(t - Take(rows, left).time)
        right_distance == Abs(t - Take(rows, right).time)
    IN  IF left_distance < right_distance \/ right = -1 THEN left ELSE right

reindex_nearest(rows, grid) ==
    [k \in 1..Len(grid) |->
        LET src == Take(rows, nearest_indexer(rows, grid[k]))
        IN  [src EXCEPT !.time = grid[k]]]

\* ------------------------------------------------------------------------
\* Column access and the repair of the three irradiance columns
\* (app.py 100-102)
\* ------------------------------------------------------------------------
Column(table, name) == [k \in 1..Len(table) |-> table[k][name]]

\* The variant that repairs every column.
repair_all_columns(table) ==
    LET dni  == interpolate_zero_values(Column(table, "DNI"))
        ghi  == interpolate_zero_values(Column(table, "GHI"))
        dhi  == interpolate_zero_values(Column(table, "DHI"))
        temp == interpolate_zero_values(Column(table, "Temperature"))
        wind == interpolate_zero_values(Column(table, "WindSpeed"))
    IN  [k \in 1..Len(table) |->
            [table[k] EXCEPT !.DNI = dni[k], !.GHI = ghi[k], !.DHI = dhi[k],
                             !.Temperature = temp[k], !.WindSpeed = wind[k]]]

repair_irradiance(table) ==
    LET dni == interpolate_zero_values(Column(table, "DNI"))
        ghi == interpolate_zero_values(Column(table, "GHI"))
        dhi == interpolate_zero_values(Column(table, "DHI"))
    IN  [k \in 1..Len(table) |->
            [table[k] EXCEPT !.DNI = dni[k], !.GHI = ghi[k], !.DHI = dhi[k]]]

\* (nsrdb_data[c] == 0).all()
AllZero(table, name) == \A k \in 1..Len(table) : RatIsZero(table[k][name])

\* .any() in place of .all()
AnyZero(table, name) == \E k \in 1..Len(table) : RatIsZero(table[k][name])
degenerate_any(table) ==
    AnyZero(table, "GHI") \/ AnyZero(table, "DNI") \/ AnyZero(table, "DHI")

degenerate(table) ==
    AllZero(table, "GHI") \/ AllZero(table, "DNI") \/ AllZero(table, "DHI")

\* ------------------------------------------------------------------------
\* Energy aggregation (app.py 215-223)
\* ------------------------------------------------------------------------
RECURSIVE SumSeq(_)
SumSeq(s) == IF s = <<>> THEN 0 ELSE Head(s) + SumSeq(Tail(s))

\* The loss percentage applied as the fraction kept.
energy_kWh_kept(ac, area, losses) ==
    LET energy_generated == SumSeq(ac) * area
        effective_energy_generated == Rat(energy_generated * losses, 100)
    IN  Rat(effective_energy_generated[1], effective_energy_generated[2] * 1000)

\* ac_power.sum() * facade_area * (1 - system_losses / 100) / 1000
energy_kWh(ac, area, losses) ==
    LET energy_generated == SumSeq(ac) * area
        effective_energy_generated == Rat(energy_generated * (100 - losses), 100)
    IN  Rat(effective_energy_generated[1], effective_energy_generated[2] * 1000)

\* f"{x:.2f}": x rounded to hundredths, halves to the even neighbour.
\* The result is the number of hundredths.
format_2f(x) ==
    LET n == x[1] * 100
        q == n \div x[2]
        r == n % x[2]
    IN  IF 2 * r < x[2] THEN q
        ELSE IF 2 * r > x[2] THEN q + 1
        ELSE IF q % 2 = 0 THEN q ELSE q + 1

\* ------------------------------------------------------------------------
\* Inputs
\* ------------------------------------------------------------------------
Days == 0..MaxDay
Texts == {"", "x"}                     \* an empty and a non-empty text input
Areas == {1, 100}                      \* facade_area, m2 (min_value 1.0)
Losses == {0, 15, 100}                 \* system_losses, percent (0..100)

\* Catalogue entries (pvlib.pvsystem.retrieve_sam): the ratings of a Sandia
\* module and of CEC inverters that do or do not cover them.
Modules == { [name |-> "M250", Vmpo |-> 50, Impo |-> 5] }
Inverters ==
    { [name |-> "ok",       Vac |-> 60, Pdco |-> 300, Idcmax |-> 10],
      [name |-> "lowVac",   Vac |-> 40, Pdco |-> 300, Idcmax |-> 10],
      [name |-> "lowPdco",  Vac |-> 60, Pdco |-> 200, Idcmax |-> 10],
      [name |-> "lowIdc",   Vac |-> 60, Pdco |-> 300, Idcmax |-> 4] }

DefaultArea     == 100
DefaultLosses   == 15
DefaultInverter == CHOOSE i \in Inverters : i.name = "ok"

\* Rows of a provider response, as <<Day, Hour>> and readings.  Hour 24 is
\* not an hour of the day.
RowTimes == { <<0, 1>>, <<0, 3>>, <<0, 6>>, <<3, 1>>, <<0, 24>> }
Reading(dni, ghi, dhi, temp, wind) ==
    [DNI |-> RatOfInt(dni), GHI |-> RatOfInt(ghi), DHI |-> RatOfInt(dhi),
     Temperature |-> RatOfInt(temp), WindSpeed |-> RatOfInt(wind)]

Readings ==
    { Reading(0, 0, 0, 0, 0), Reading(10, 10, 10, 20, 3), Reading(40, 0, 5, 0, 0) }

CsvRows ==
    { [Day |-> t[1], Hour |-> t[2], DNI |-> r.DNI, GHI |-> r.GHI, DHI |-> r.DHI,
       Temperature |-> r.Temperature, WindSpeed |-> r.WindSpeed] :
         t \in RowTimes, r \in Readings }

Responses == UNION { [1..n -> CsvRows] : n \in 1..MaxRows }

\* Hourly AC power (W) as pvlib.inverter.sandia returns it: an output up
\* to Paco, or the night tare draw -Pnt (a negative value) for an hour in
\* which the DC power is below the start-up power Pso.
NightTare == -1
ACSeries(grid) ==
    { [k \in 1..Len(grid) |-> v] : v \in {NightTare, 250} }
    \cup { [k \in 1..Len(grid) |->
              IF (grid[k] % HoursPerDay) \in 6..18 THEN 250 ELSE NightTare] }

\* ------------------------------------------------------------------------
\* Messages
\* ------------------------------------------------------------------------
MsgDate        == "End date must be after start date."
MsgCredentials == "Please enter your NSRDB API key, full name, email, and affiliation."
MsgFetch       == "Error fetching NSRDB data"
MsgTime        == "Error processing NSRDB time data"
MsgReindex     == "Error reindexing NSRDB data"
MsgCellTemp    == "Error calculating cell temperature"
MsgDC          == "Error calculating DC power"
MsgAC          == "Error calculating AC power"
MsgNoData      == "Unable to fetch sufficient data from available sources."
MsgZeros       == "Irradiance values (GHI, DNI, DHI) contain zeros."
MsgUncaught    == "uncaught exception"
MsgMargin      == "margin of error of approximately 20%"

st_error(msgs, text)   == Append(msgs, <<"error", text>>)
st_warning(msgs, text) == Append(msgs, <<"warning", text>>)
st_success(msgs, kWh)  == Append(msgs, <<"success", format_2f(kWh)>>)

\* ------------------------------------------------------------------------
\* Initial state: the page is rendered and the button has not been pressed.
\* The dates and the four text inputs hold what the user entered.  The
\* number inputs and select boxes show their defaults (app.py 45-46, 55,
\* 61); what the user set them to is resolved by the step of the handler
\* that first reads them.
\* ------------------------------------------------------------------------
Init ==
    /\ pc = "ready"
    /\ study_start_date \in Days
    /\ study_end_date \in Days
    /\ api_key \in Texts
    /\ full_name \in Texts
    /\ email \in Texts
    /\ affiliation \in Texts
    /\ facade_area = DefaultArea
    /\ system_losses = DefaultLosses
    /\ selected_pv_module \in Modules
    /\ selected_inverter = DefaultInverter
    /\ requests_sent = 0
    /\ messages = <<>>
    /\ times = <<>>
    /\ nsrdb_data = None
    /\ sorted_data = <<>>
    /\ reindexed = <<>>
    /\ ac_power = <<>>
    /\ energy_generated_kWh = NA
    /\ series = <<>>
    /\ repaired = <<>>

inputs == <<study_start_date, study_end_date, api_key, full_name, email,
            affiliation>>
config == <<facade_area, system_losses>>
pv     == <<selected_pv_module, selected_inverter>>
direct == <<series, repaired>>
tables == <<sorted_data, reindexed>>

\* ------------------------------------------------------------------------
\* The button handler (app.py 64-228)
\* ------------------------------------------------------------------------

\* app.py 66: study_start_date >= study_end_date
dates_rejected_strict(start, end) == start > end
dates_rejected(start, end) == start >= end

\* app.py 73: api_key and full_name and email and affiliation
credentials_given_three(key, name, mail, affil) ==
    key # "" /\ name # "" /\ mail # ""
credentials_given(key, name, mail, affil) ==
    key # "" /\ name # "" /\ mail # "" /\ affil # ""

\* st.stop() ends the script run (app.py 87, 97, 179, 195, 207).
st_stop_skipped == "ac_power"
st_stop == "stopped"

\* app.py 64-79 and 227-228: date validation, the grid, the credentials
\* check and the call of fetch_nsrdb_tmy up to requests.get.
Click ==
    /\ pc = "ready"
    /\ IF dates_rejected(study_start_date, study_end_date)
       THEN /\ messages' = st_error(messages, MsgDate)
            /\ pc' = "done"
            /\ UNCHANGED <<times, requests_sent>>
       ELSE /\ times' = date_range(study_start_date, study_end_date)
            /\ IF credentials_given(api_key, full_name, email, affiliation)
               THEN /\ requests_sent' = requests_sent + 1
                    /\ pc' = "fetching"
                    /\ UNCHANGED messages
               ELSE /\ messages' = st_error(st_error(messages, MsgCredentials),
                                            MsgNoData)
                    /\ pc' = "done"
                    /\ UNCHANGED requests_sent
    /\ UNCHANGED <<nsrdb_data, tables, ac_power, energy_generated_kWh,
                   inputs, config, pv, direct>>

\* app.py 16-25 and 79, 227-228: the provider answers.
FetchOk ==
    /\ pc = "fetching"
    /\ \E rows \in Responses : nsrdb_data' = rows
    /\ pc' = "fetched"
    /\ UNCHANGED <<messages, requests_sent, times, tables, ac_power,
                   energy_generated_kWh, inputs, config, pv, direct>>

\* A status other than 200, or requests.get / read_csv raising.
FetchFail ==
    /\ pc = "fetching"
    /\ messages' = st_error(st_error(messages, MsgFetch), MsgNoData)
    /\ nsrdb_data' = None
    /\ pc' = "done"
    /\ UNCHANGED <<requests_sent, times, tables, ac_power,
                   energy_generated_kWh, inputs, config, pv, direct>>

\* app.py 80-87: compose the time column and make it the index.
ProcessTime ==
    /\ pc = "fetched"
    /\ IF CanCompose(nsrdb_data)
       THEN /\ nsrdb_data' = set_time_index(nsrdb_data)
            /\ pc' = "indexed"
            /\ UNCHANGED messages
       ELSE /\ messages' = st_error(messages, MsgTime)
            /\ pc' = st_stop
            /\ UNCHANGED nsrdb_data
    /\ UNCHANGED <<requests_sent, times, tables, ac_power,
                   energy_generated_kWh, inputs, config, pv, direct>>

\* app.py 89-97: sort by time and align to the grid.
Reindex ==
    /\ pc = "indexed"
    /\ sorted_data' = sort_index(nsrdb_data)
    /\ IF IndexIsUnique(sort_index(nsrdb_data))
       THEN /\ nsrdb_data' = reindex_nearest(sort_index(nsrdb_data), times)
            /\ reindexed' = reindex_nearest(sort_index(nsrdb_data), times)
            /\ pc' = "aligned"
            /\ UNCHANGED messages
       ELSE /\ nsrdb_data' = sort_index(nsrdb_data)
            /\ messages' = st_error(messages, MsgReindex)
            /\ pc' = st_stop
            /\ UNCHANGED reindexed
    /\ UNCHANGED <<requests_sent, times, ac_power, energy_generated_kWh,
                   inputs, config, pv, direct>>

\* app.py 99-108: zero repair of the irradiance columns and the check for
\* a component that is zero throughout.
ZeroRepair ==
    /\ pc = "aligned"
    /\ nsrdb_data' = repair_irradiance(nsrdb_data)
    /\ messages' = IF degenerate(repair_irradiance(nsrdb_data))
                   THEN st_warning(st_warning(messages, MsgZeros), MsgMargin)
                   ELSE messages
    /\ pc' = "repaired"
    /\ UNCHANGED <<requests_sent, times, tables, ac_power,
                   energy_generated_kWh, inputs, config, pv, direct>>

\* app.py 115-160: solar position and plane-of-array irradiance.  These
\* calls are not guarded: an exception ends the script.
Irradiance ==
    /\ pc = "repaired"
    /\ \E ok \in BOOLEAN :
         IF ok THEN pc' = "poa" /\ UNCHANGED messages
         ELSE pc' = "crashed" /\ messages' = Append(messages, <<"exception", MsgUncaught>>)
    /\ UNCHANGED <<requests_sent, times, nsrdb_data, tables,
                   ac_power, energy_generated_kWh, inputs, config, pv, direct>>

\* app.py 167-184
CellTemperature ==
    /\ pc = "poa"
    /\ \E ok \in BOOLEAN :
         IF ok THEN pc' = "cell_temperature" /\ UNCHANGED messages
         ELSE pc' = st_stop /\ messages' = st_error(messages, MsgCellTemp)
    /\ UNCHANGED <<requests_sent, times, nsrdb_data, tables, ac_power,
                   energy_generated_kWh, inputs, config, pv, direct>>

\* app.py 186-200: the PV system is built from the selected module and
\* inverter, whatever their ratings, and the module model is run.
DCPower ==
    /\ pc = "cell_temperature"
    /\ \E m \in Modules, i \in Inverters :
         /\ selected_pv_module' = m
         /\ selected_inverter' = i
    /\ \E ok \in BOOLEAN :
         IF ok THEN pc' = "dc_power" /\ UNCHANGED messages
         ELSE pc' = st_stop /\ messages' = st_error(messages, MsgDC)
    /\ UNCHANGED <<requests_sent, times, nsrdb_data, tables, ac_power,
                   energy_generated_kWh, inputs, config, direct>>

\* app.py 202-212
ACPower ==
    /\ pc = "dc_power"
    /\ \/ /\ \E ac \in ACSeries(times) : ac_power' = ac
          /\ pc' = "ac_power"
          /\ UNCHANGED messages
       \/ /\ messages' = st_error(messages, MsgAC)
          /\ pc' = st_stop
          /\ UNCHANGED ac_power
    /\ UNCHANGED <<requests_sent, times, nsrdb_data, tables,
                   energy_generated_kWh, inputs, config, pv, direct>>

\* app.py 214-226
Aggregate ==
    /\ pc = "ac_power"
    /\ \E area \in Areas, losses \in Losses :
         /\ facade_area' = area
         /\ system_losses' = losses
         /\ energy_generated_kWh' = energy_kWh(ac_power, area, losses)
         /\ messages' = st_success(messages, energy_kWh(ac_power, area, losses))
    /\ pc' = "done"
    /\ UNCHANGED <<requests_sent, times, nsrdb_data, tables, ac_power,
                   inputs, pv, direct>>

Next ==
    \/ Click
    \/ FetchOk
    \/ FetchFail
    \/ ProcessTime
    \/ Reindex
    \/ ZeroRepair
    \/ Irradiance
    \/ CellTemperature
    \/ DCPower
    \/ ACPower
    \/ Aggregate

Spec == Init /\ [][Next]_vars

\* ------------------------------------------------------------------------
\* interpolate_zero_values called directly on a series
\* ------------------------------------------------------------------------
SeriesValues == { RatOfInt(v) : v \in {0, 5, 10, 40} }
SeriesInputs == UNION { [1..n -> SeriesValues] : n \in 1..MaxLen }

InitRepair ==
    /\ pc = "call"
    /\ series \in SeriesInputs
    /\ repaired = <<>>
    /\ study_start_date = 0 /\ study_end_date = 0
    /\ api_key = "" /\ full_name = "" /\ email = "" /\ affiliation = ""
    /\ facade_area = DefaultArea
    /\ system_losses = DefaultLosses
    /\ selected_pv_module \in Modules
    /\ selected_inverter = DefaultInverter
    /\ requests_sent = 0
    /\ messages = <<>>
    /\ times = <<>>
    /\ nsrdb_data = None
    /\ sorted_data = <<>>
    /\ reindexed = <<>>
    /\ ac_power = <<>>
    /\ energy_generated_kWh = NA

CallRepair ==
    /\ pc = "call"
    /\ repaired' = interpolate_zero_values(series)
    /\ pc' = "returned"
    /\ UNCHANGED <<series, messages, requests_sent, times, nsrdb_data,
                   tables, ac_power, energy_generated_kWh, inputs,
                   config, pv>>

NextRepair == CallRepair

SpecRepair == InitRepair /\ [][NextRepair]_vars

\* ------------------------------------------------------------------------
\* Properties
\* ------------------------------------------------------------------------
Shown(level, text) ==
    \E i \in 1..Len(messages) : messages[i][1] = level /\ messages[i][2] = text
ErrorShown  == \E i \in 1..Len(messages) : messages[i][1] = "error"
FigureShown == \E i \in 1..Len(messages) : messages[i][1] = "success"
Ended       == pc \in {"done", "stopped", "crashed"}
Failures    == {MsgDate, MsgCredentials, MsgFetch, MsgNoData, MsgTime,
                MsgReindex, MsgCellTemp, MsgDC, MsgAC}

\* C1: the energy figure is shown only in a run that reported no error;
\* every reported failure has ended the run, and the run shows no figure.
NoFigureAfterError ==
    /\ FigureShown => (~ErrorShown /\ pc = "done")
    /\ \A m \in Failures : Shown("error", m) => (Ended /\ ~FigureShown)

FailureEndsRun ==
    /\ pc = "stopped"
    /\ Shown("error", MsgAC)
    /\ ac_power = <<>>
    /\ ~FigureShown

\* C2: once the button is pressed, the date error is shown exactly when
\* start >= end, and a run with start >= end never issues a request.
DatesCheckedBeforeFetch ==
    /\ pc # "ready" =>
         (Shown("error", MsgDate) <=> study_start_date >= study_end_date)
    /\ study_start_date >= study_end_date => requests_sent = 0

EqualDatesRejected ==
    /\ pc = "done"
    /\ study_start_date = study_end_date
    /\ Shown("error", MsgDate)
    /\ requests_sent = 0

AnyCredentialMissing ==
    api_key = "" \/ full_name = "" \/ email = "" \/ affiliation = ""

\* C8: with valid dates, a missing API key, name, email or affiliation is
\* reported as a credentials error, no request is sent and the run ends
\* without a figure; a request is sent only when all four are present.
CredentialsRequired ==
    /\ (pc # "ready" /\ study_start_date < study_end_date) =>
         /\ Shown("error", MsgCredentials) <=> AnyCredentialMissing
         /\ AnyCredentialMissing =>
              (pc = "done" /\ ~FigureShown /\ Shown("error", MsgNoData))
    /\ AnyCredentialMissing => requests_sent = 0
    /\ requests_sent > 0 => ~AnyCredentialMissing

OnlyAffiliationMissing ==
    /\ pc = "done"
    /\ study_start_date < study_end_date
    /\ api_key # "" /\ full_name # "" /\ email # "" /\ affiliation = ""
    /\ Shown("error", MsgCredentials)
    /\ requests_sent = 0

\* Readings of a series around position i (the series of SpecRepair holds
\* whole numbers, so a reading is its numerator).
NonZeroBefore(i) == { j \in 1..(i - 1) : series[j][1] # 0 }
NonZeroAfter(i)  == { j \in (i + 1)..Len(series) : series[j][1] # 0 }

\* r lies on the line from series[p] to series[n], at position i
Between(r, p, i, n) ==
    r[2] > 0 /\
    r[1] * (n - p) = (series[p][1] * (n - i) + series[n][1] * (i - p)) * r[2]

Example(ins, outs) ==
    series = [i \in 1..Len(ins) |-> RatOfInt(ins[i])] =>
        repaired = [i \in 1..Len(outs) |-> RatOfInt(outs[i])]

Aligned == reindexed # <<>>

SameReadings(a, b) ==
    /\ a.DNI = b.DNI /\ a.GHI = b.GHI /\ a.DHI = b.DHI
    /\ a.Temperature = b.Temperature /\ a.WindSpeed = b.WindSpeed

Dist(j, t) == Abs(sorted_data[j].time - t)
IsNearest(j, t) == \A j2 \in 1..Len(sorted_data) : Dist(j, t) <= Dist(j2, t)
Tied(j, j2, t) == j # j2 /\ Dist(j, t) = Dist(j2, t)

GridOfWindow ==
    /\ Len(reindexed) = (study_end_date - study_start_date) * 24 + 1
    /\ \A k \in 1..Len(reindexed) :
         reindexed[k].time = study_start_date * 24 + (k - 1)

\* C4 as stated: the reindexed table has one row per hour of the window,
\* each with the readings of the nearest source timestamp, the earlier one
\* of two equidistant source timestamps.
NearestTiesEarlier ==
    Aligned =>
        /\ GridOfWindow
        /\ \A k \in 1..Len(reindexed) :
             \E j \in 1..Len(sorted_data) :
                /\ IsNearest(j, reindexed[k].time)
                /\ \A j2 \in 1..Len(sorted_data) :
                     Tied(j, j2, reindexed[k].time) =>
                         sorted_data[j].time < sorted_data[j2].time
                /\ SameReadings(reindexed[k], sorted_data[j])

\* C4 amended: the reindexed table has one row per hour of the window, each
\* with the readings of the nearest source timestamp, the later one of two
\* equidistant source timestamps; a target hour before the first or after
\* the last source timestamp takes the first or last source row.
NearestTiesLater ==
    Aligned =>
        /\ GridOfWindow
        /\ \A k \in 1..Len(reindexed) :
             \E j \in 1..Len(sorted_data) :
                /\ IsNearest(j, reindexed[k].time)
                /\ \A j2 \in 1..Len(sorted_data) :
                     Tied(j, j2, reindexed[k].time) =>
                         sorted_data[j].time > sorted_data[j2].time
                /\ SameReadings(reindexed[k], sorted_data[j])
                /\ reindexed[k].time < sorted_data[1].time => j = 1
                /\ reindexed[k].time > sorted_data[Len(sorted_data)].time =>
                       j = Len(sorted_data)

TieAndOutOfRange ==
    /\ pc = "aligned"
    /\ \E k \in 1..Len(reindexed) : \E j, j2 \in 1..Len(sorted_data) :
         /\ Tied(j, j2, reindexed[k].time)
         /\ IsNearest(j, reindexed[k].time)
         /\ ~SameReadings(sorted_data[j], sorted_data[j2])
    /\ reindexed[1].time < sorted_data[1].time
    /\ reindexed[Len(reindexed)].time > sorted_data[Len(sorted_data)].time

StrictlyIncreasingIndex(rows) ==
    \A i, j \in 1..Len(rows) : i < j => rows[i].time < rows[j].time

\* C5: whatever the response, the table handed to reindex has a strictly
\* increasing index, duplicate timestamps having been dropped, and the
\* run is not stopped at the alignment step.
DuplicatesDroppedBeforeReindex ==
    sorted_data # <<>> =>
        /\ StrictlyIncreasingIndex(sorted_data)
        /\ ~Shown("error", MsgReindex)

Compatible(module, inverter) ==
    /\ module.Vmpo <= inverter.Vac
    /\ module.Vmpo * module.Impo <= inverter.Pdco
    /\ module.Impo <= inverter.Idcmax

\* C6: AC power is computed, and a figure shown, only for a module whose
\* max voltage, power and current are within the inverter's AC voltage, DC
\* power and DC current ratings.
IncompatiblePairingRejected ==
    (pc = "ac_power" \/ FigureShown) =>
        Compatible(selected_pv_module, selected_inverter)

\* The value x in units of 1/100000 (x has such a denominator).
HundredThousandths(x) == x[1] * (100000 \div x[2])
ShownFigure == (CHOOSE m \in {messages[i] : i \in 1..Len(messages)} :
                    m[1] = "success")[2]

EnergyAsComputed ==
    LET e == energy_generated_kWh
        S == SumSeq(ac_power)
    IN  /\ e[2] > 0 /\ 100000 % e[2] = 0
        /\ HundredThousandths(e) = S * facade_area * (100 - system_losses)
        /\ system_losses = 0 => HundredThousandths(e) = S * facade_area * 100
        /\ system_losses = 100 => e = <<0, 1>>

NoGainFromLoss ==
    \A more \in Losses :
        more >= system_losses =>
            HundredThousandths(energy_kWh(ac_power, facade_area, more))
                <= HundredThousandths(energy_generated_kWh)

\* C7 as stated: the energy of a successful run is
\* sum(AC) x area x (1 - losses/100) / 1000, and a higher loss percentage
\* never gives more energy from the same AC series and area.
EnergyNeverGrowsWithLoss ==
    FigureShown => (EnergyAsComputed /\ NoGainFromLoss)

\* C7 amended: the energy of a successful run is
\* sum(AC) x area x (1 - losses/100) / 1000, shown rounded to two decimals;
\* a higher loss percentage never gives more energy from the same AC series
\* and area provided the AC sum is not negative.
EnergyNeverGrowsWithLossWhenSumNonNegative ==
    FigureShown =>
        /\ EnergyAsComputed
        /\ 2 * Abs(ShownFigure * 1000 - HundredThousandths(energy_generated_kWh))
              <= 1000
        /\ SumSeq(ac_power) >= 0 => NoGainFromLoss

FigureWithLosses ==
    /\ pc = "done"
    /\ FigureShown
    /\ SumSeq(ac_power) > 0
    /\ system_losses = 15
    /\ facade_area = 100
    /\ ShownFigure > 0

\* The zero repair step has run.
Repaired == Aligned /\ pc # "aligned"
Warned == Shown("warning", MsgZeros)

ZeroThroughout(name) ==
    \A k \in 1..Len(nsrdb_data) : nsrdb_data[k][name] = <<0, 1>>

\* C9: after the zero repair the warning has been emitted exactly when
\* GHI, DNI or DHI is zero at every hour of the window, and a run never
\* ends on the warning: it goes on to the later stages.
WarningIffComponentAllZero ==
    /\ Repaired =>
         /\ Warned <=> (ZeroThroughout("GHI") \/ ZeroThroughout("DNI")
                          \/ ZeroThroughout("DHI"))
         /\ Warned <=> Shown("warning", MsgMargin)
    /\ ~Repaired => ~Warned
    /\ (Warned /\ Ended) => messages[Len(messages)][1] # "warning"

WarnedRunShowsFigure ==
    /\ pc = "done"
    /\ Warned
    /\ FigureShown
    /\ \E k \in 1..Len(nsrdb_data) : nsrdb_data[k].DNI # <<0, 1>>

\* C10: after the zero repair, temperature and wind speed are at every
\* hour what the reindex produced; a zero among them is still zero.
RepairKeepsWeather ==
    Repaired =>
        /\ Len(nsrdb_data) = Len(reindexed)
        /\ \A k \in 1..Len(reindexed) :
             /\ nsrdb_data[k].time = reindexed[k].time
             /\ nsrdb_data[k].Temperature = reindexed[k].Temperature
             /\ nsrdb_data[k].WindSpeed = reindexed[k].WindSpeed

ZeroWeatherBesideRepairedIrradiance ==
    /\ pc = "repaired"
    /\ \E k1, k, k2 \in 1..Len(reindexed) :
         /\ k1 < k /\ k < k2
         /\ reindexed[k1].Temperature # <<0, 1>>
         /\ reindexed[k2].Temperature # <<0, 1>>
         /\ reindexed[k].Temperature = <<0, 1>>
         /\ reindexed[k].WindSpeed = <<0, 1>>
         /\ reindexed[k].DNI = <<0, 1>>
         /\ nsrdb_data[k].DNI # <<0, 1>>
         /\ nsrdb_data[k].Temperature = <<0, 1>>

====
